---- MODULE Spec2Model ----
(***************************************************************************)
(* AsciiVision (src/asciivision.py): the two conversions of class          *)
(* AsciiVision, ascii_to_image (text -> image) and image_to_ascii          *)
(* (image -> text).                                                         *)
(*                                                                          *)
(* A Python str is a sequence of one-character strings.  The Pillow calls   *)
(* (ImageFont.truetype, font.getbbox, Image.new, ImageDraw.text,            *)
(* Image.save, Image.open, Image.resize) are modelled by their outcome:     *)
(* the value they return or the exception they raise.                       *)
(***************************************************************************)
EXTENDS Integers, Sequences, FiniteSets, TLC

VARIABLES
    pc,            \* "idle" before a call, "done" after the call returned
    ascii_text,    \* ascii_to_image: the ascii_text argument
    wrap_width,    \* ascii_to_image: the wrap_width argument
    wrapped_text,  \* ascii_text as reassigned at line 342
    lines,         \* lines as assigned at line 345
    font_name,     \* ascii_to_image: the font_name argument
    font_size,     \* ascii_to_image: the font_size argument
    bg_color,      \* ascii_to_image: the bg_color argument
    fg_color,      \* ascii_to_image: the fg_color argument
    padding,       \* ascii_to_image: the padding argument
    newline_glyph, \* whether the font gives "\n" a glyph with an advance
    save_env,      \* what image.save(output_path) meets: "ok", "refused", "broken"
    font,          \* the font object of lines 349-353
    max_width,     \* line 346
    text_width,    \* line 357
    text_height,   \* line 358
    img_width,     \* line 361
    img_height,    \* line 362
    image,         \* the canvas of line 365: <<width, height>>, <<>> when none
    output_file,   \* the file at output_path
    raised,        \* the call that raised inside the try block, "none" if none
    result,        \* the value ascii_to_image returned
    source,        \* image_to_ascii: the image file at image_path
    width,         \* image_to_ascii: the width argument
    height,        \* line 393
    pixels,        \* line 399: the data of the resized image, row by row
    ascii_result,  \* the value image_to_ascii returned
    config,        \* self.config of the instance
    client,        \* self.client of the instance
    config_file,   \* the file config.json of the config directory
    phase,         \* where the instance is in its life
    raised_new,    \* the exception that left AsciiVision(), "none" if none
    reloaded,      \* self.config of an instance constructed after a save
    calls,         \* how many conversions were called on the instance
    first_call,    \* the first conversion called: arguments and outcome
    last_call,     \* the latest conversion called: arguments and outcome
    argv,          \* main: the parsed command line
    exit_status,   \* main: the exit status of the process, -1 while it runs
    stdout,        \* main: the kinds of message main printed
    described      \* main: whether _describe_image was called

wrapVars == <<ascii_text, wrap_width, wrapped_text, lines>>

rasterArgs == <<font_name, font_size, bg_color, fg_color, padding,
                newline_glyph, save_env>>

rasterVars == <<font, max_width, text_width, text_height, img_width,
                img_height, image, output_file, raised, result>>

quantVars == <<source, width, height, pixels, ascii_result>>

instanceVars == <<config, client, config_file, phase, raised_new, reloaded>>

callVars == <<calls, first_call, last_call>>

mainVars == <<argv, exit_status, stdout, described>>

hostVars == <<instanceVars, callVars, mainVars>>

vars == <<pc, wrapVars, rasterArgs, rasterVars, quantVars, hostVars>>

(***************************************************************************)
(* Bounds of the model.                                                     *)
(***************************************************************************)
MaxLen == 6        \* longest ascii_text of the wrapping specification
MaxWrap == 3       \* largest wrap_width of the wrapping specification

(***************************************************************************)
(* Python str primitives.                                                   *)
(***************************************************************************)
Chars == {"a", "b", " ", "\n"}

\* the characters str.split() and str.rstrip() treat as whitespace
IsSpace(c) == c \in {" ", "\t", "\n"}

RECURSIVE StringsUpTo(_)
StringsUpTo(n) ==
    IF n = 0 THEN {<<>>}
    ELSE LET shorter == StringsUpTo(n - 1)
         IN  shorter \cup {Append(s, c) : s \in {t \in shorter : Len(t) = n - 1}, c \in Chars}

\* s.split('\n'): one piece per newline plus one, empty pieces kept
RECURSIVE SplitNewline(_, _, _)
SplitNewline(s, i, cur) ==
    IF i > Len(s) THEN <<cur>>
    ELSE IF s[i] = "\n" THEN <<cur>> \o SplitNewline(s, i + 1, <<>>)
    ELSE SplitNewline(s, i + 1, Append(cur, s[i]))

SplitLines(s) == SplitNewline(s, 1, <<>>)

\* s.split(): maximal runs of non-whitespace, no empty pieces
RECURSIVE SplitSpace(_, _, _)
SplitSpace(s, i, cur) ==
    IF i > Len(s) THEN (IF cur = <<>> THEN <<>> ELSE <<cur>>)
    ELSE IF IsSpace(s[i])
         THEN (IF cur = <<>> THEN <<>> ELSE <<cur>>) \o SplitSpace(s, i + 1, <<>>)
         ELSE SplitSpace(s, i + 1, Append(cur, s[i]))

Split(s) == SplitSpace(s, 1, <<>>)

\* s.rstrip(): s without its trailing whitespace
RECURSIVE RStrip(_)
RStrip(s) ==
    IF s # <<>> /\ IsSpace(s[Len(s)]) THEN RStrip(SubSeq(s, 1, Len(s) - 1)) ELSE s

\* '\n'.join(ls)
RECURSIVE Join(_)
Join(ls) ==
    IF ls = <<>> THEN <<>>
    ELSE IF Len(ls) = 1 THEN ls[1]
    ELSE ls[1] \o <<"\n">> \o Join(Tail(ls))

(***************************************************************************)
(* The wrapping step of ascii_to_image, lines 324-342.                      *)
(***************************************************************************)
\* line 324: wrapping is done at all
WrapEnabledOff(w) == w >= 0
WrapEnabled(w) == w > 0

\* line 327: the line is appended unchanged
PassThrough(line, w) == Len(line) <= w

\* line 334: the word joins the accumulating line (which ends in a space)
FitsLoose(current_line, word, w) == Len(current_line \o word) <= w + 1
FitsStrict(current_line, word, w) == Len(current_line \o word) < w
Fits(current_line, word, w) == Len(current_line \o word) <= w

\* lines 337-338 and 340-341: the accumulated line is appended, trimmed
FlushDrop(current_line) == <<>>
Flush(current_line) ==
    IF current_line # <<>> THEN <<RStrip(current_line)>> ELSE <<>>

\* lines 332-341: the lines appended for the words of one over-long line
RECURSIVE PackWords(_, _, _, _)
PackWords(words, k, current_line, w) ==
    IF k > Len(words) THEN Flush(current_line)
    ELSE IF Fits(current_line, words[k], w)
         THEN PackWords(words, k + 1, current_line \o words[k] \o <<" ">>, w)
         ELSE Flush(current_line) \o PackWords(words, k + 1, words[k] \o <<" ">>, w)

\* lines 327-341: the lines appended for one input line
WrapLine(line, w) ==
    IF PassThrough(line, w) THEN <<line>> ELSE PackWords(Split(line), 1, <<>>, w)

\* lines 325-341: the list lines after the loop over ascii_text.split('\n')
RECURSIVE WrapLines(_, _)
WrapLines(ls, w) ==
    IF ls = <<>> THEN <<>> ELSE WrapLine(ls[1], w) \o WrapLines(Tail(ls), w)

\* lines 324-342: ascii_text after the wrapping step
WrapText(text, w) ==
    IF WrapEnabled(w) THEN Join(WrapLines(SplitLines(text), w)) ELSE text

(***************************************************************************)
(* The instance: self.config, self.client and the file config.json.  A     *)
(* Python value is a pair <<type, text>>, a JSON value a pair               *)
(* <<kind, text>>, a dict a function of its keys.                           *)
(***************************************************************************)
PyTrue == <<"bool", "True">>
PyFalse == <<"bool", "False">>
PyNone == <<"NoneType", "None">>
PyStr(s) == <<"str", s>>

\* json.dump (line 80) of one value
JsonDump(v) ==
    IF v = PyTrue THEN <<"literal", "true">>
    ELSE IF v = PyFalse THEN <<"literal", "false">>
    ELSE IF v = PyNone THEN <<"literal", "null">>
    ELSE <<"string", v[2]>>

\* json.load (line 68) of one value
JsonLoad(t) ==
    IF t = <<"literal", "true">> THEN PyTrue
    ELSE IF t = <<"literal", "false">> THEN PyFalse
    ELSE IF t = <<"literal", "null">> THEN PyNone
    ELSE PyStr(t[2])

EmptyDict == [k \in {} |-> PyNone]

\* lines 60-64
default_config ==
    [k \in {"auto_describe", "screen_reader", "model"} |->
        IF k = "auto_describe" THEN PyFalse
        ELSE IF k = "screen_reader" THEN PyNone
        ELSE PyStr("gpt-4o")]

\* line 69: {**d, **c}
Merge(d, c) ==
    [k \in DOMAIN d \cup DOMAIN c |-> IF k \in DOMAIN c THEN c[k] ELSE d[k]]

\* config.json: no file; a JSON object; text that is not JSON; a file that
\* open() refuses; JSON that is not an object; bytes that are not text
FileKinds ==
    {"absent", "object", "invalid_json", "unreadable", "not_object", "not_text"}

File(kind, data) == [kind |-> kind, data |-> data]

\* lines 58-74.  open() raising OSError and json.load raising
\* JSONDecodeError are caught at line 70; json.load raising
\* UnicodeDecodeError and line 69 raising TypeError on a value that is not a
\* mapping are not
LoadConfig(file) ==
    IF file.kind = "absent"
    THEN [config |-> default_config, raised |-> "none"]
    ELSE IF file.kind \in {"unreadable", "invalid_json"}
    THEN [config |-> default_config, raised |-> "none"]
    ELSE IF file.kind = "not_text"
    THEN [config |-> EmptyDict, raised |-> "UnicodeDecodeError"]
    ELSE IF file.kind = "not_object"
    THEN [config |-> EmptyDict, raised |-> "TypeError"]
    ELSE [config |-> Merge(default_config,
                           [k \in DOMAIN file.data |-> JsonLoad(file.data[k])]),
          raised |-> "none"]

\* what open() and json.dump of _save_config meet
ConfigSaveOutcomes == {"ok", "refused", "broken"}

\* lines 76-82: the file after _save_config.  open(.., 'w') that is refused
\* changes nothing; a write that breaks off leaves the start of the text
SaveConfig(cfg, file, env) ==
    IF env = "ok" THEN File("object", [k \in DOMAIN cfg |-> JsonDump(cfg[k])])
    ELSE IF env = "broken" THEN File("invalid_json", EmptyDict)
    ELSE file

\* the options a configuration holds and the values they take
OptionValues(k) ==
    IF k = "auto_describe" THEN {PyTrue, PyFalse}
    ELSE IF k = "screen_reader" THEN {PyNone, PyStr("Orca")}
    ELSE IF k = "model" THEN {PyStr("gpt-4o"), PyStr("gpt-4o-mini")}
    ELSE {PyStr("en")}

NoCall == [method |-> "none"]

\* an instance on default settings, no conversion called and main not run
NoHostUse ==
    /\ config = default_config /\ client = "None"
    /\ config_file = File("absent", EmptyDict)
    /\ phase = "ready" /\ raised_new = "none" /\ reloaded = EmptyDict
    /\ calls = 0 /\ first_call = NoCall /\ last_call = NoCall
    /\ argv = <<>> /\ exit_status = -1 /\ stdout = {} /\ described = FALSE

\* the variables of image_to_ascii before any call
NoQuantCall ==
    /\ source = [decodable |-> FALSE, width |-> 0, height |-> 0, lum |-> 0]
    /\ width = 0 /\ height = 0 /\ pixels = <<>> /\ ascii_result = <<>>

\* the variables of ascii_to_image past the wrapping step, before any call
NoRasterCall ==
    /\ font_name = "" /\ font_size = 0 /\ bg_color = "" /\ fg_color = ""
    /\ padding = 0 /\ newline_glyph = FALSE /\ save_env = "ok"
    /\ font = "none" /\ max_width = 0 /\ text_width = 0 /\ text_height = 0
    /\ img_width = 0 /\ img_height = 0 /\ image = <<>>
    /\ output_file = "absent" /\ raised = "none" /\ result = FALSE

(***************************************************************************)
(* The wrapping step as a function of its inputs.                           *)
(***************************************************************************)
WrapInit ==
    /\ pc = "idle"
    /\ ascii_text \in StringsUpTo(MaxLen)
    /\ wrap_width \in -1 .. MaxWrap
    /\ wrapped_text = <<>>
    /\ lines = <<>>
    /\ NoRasterCall
    /\ NoQuantCall
    /\ NoHostUse

\* lines 324-345
WrapStep ==
    /\ pc = "idle"
    /\ pc' = "done"
    /\ wrapped_text' = WrapText(ascii_text, wrap_width)
    /\ lines' = SplitLines(wrapped_text')
    /\ UNCHANGED <<ascii_text, wrap_width, rasterArgs, rasterVars, quantVars,
                   hostVars>>

WrapNext == WrapStep

SpecWrap == WrapInit /\ [][WrapNext]_vars

(***************************************************************************)
(* Properties of the wrapping step.                                         *)
(***************************************************************************)
Range(f) == {f[i] : i \in DOMAIN f}

\* the words of a list of lines, in reading order
RECURSIVE WordsOf(_)
WordsOf(ls) == IF ls = <<>> THEN <<>> ELSE Split(ls[1]) \o WordsOf(Tail(ls))

InputLines == SplitLines(ascii_text)

\* C2: with wrap_width > 0 every line after the wrapping step is at most
\* wrap_width characters long, unless it is one single word (no whitespace in
\* it) that is itself longer than wrap_width.
C2_WrapLineLength ==
    (pc = "done" /\ wrap_width > 0) =>
        \A i \in DOMAIN lines :
            \/ Len(lines[i]) <= wrap_width
            \/ Split(lines[i]) = <<lines[i]>>

\* an over-long line of several words was broken, and one produced line is
\* exactly wrap_width long
C2_Witness ==
    /\ pc = "done"
    /\ wrap_width > 0
    /\ \E line \in Range(InputLines) :
           Len(line) > wrap_width /\ Len(Split(line)) >= 2
    /\ Len(lines) > Len(InputLines)
    /\ \E i \in DOMAIN lines :
           Len(lines[i]) = wrap_width /\ Len(Split(lines[i])) >= 2

\* C3: with wrap_width > 0, the words of the lines produced for an input line
\* longer than wrap_width are exactly the words of that line, in order (so the
\* words of the whole text are kept), and a word longer than wrap_width is the
\* whole of the line it is on.
C3_WordsPreserved ==
    (pc = "done" /\ wrap_width > 0) =>
        /\ \A line \in Range(InputLines) :
               Len(line) > wrap_width =>
                   WordsOf(WrapLine(line, wrap_width)) = Split(line)
        /\ Split(wrapped_text) = Split(ascii_text)
        /\ \A i \in DOMAIN lines :
               \A word \in Range(Split(lines[i])) :
                   Len(word) > wrap_width => lines[i] = word

\* an over-long line holding a word longer than wrap_width between two
\* shorter words
C3_Witness ==
    /\ pc = "done"
    /\ wrap_width > 0
    /\ \E line \in Range(InputLines) :
           LET words == Split(line)
           IN  /\ Len(words) = 3
               /\ Len(words[1]) <= wrap_width
               /\ Len(words[2]) > wrap_width
               /\ Len(words[3]) <= wrap_width
    /\ \E i \in DOMAIN lines : Len(lines[i]) > wrap_width

NoWrapNeeded ==
    \/ wrap_width <= 0
    \/ \A line \in Range(InputLines) : Len(line) <= wrap_width

\* C4: when wrap_width <= 0, or when no line of the text is longer than
\* wrap_width, the wrapping step leaves the text as it was: the same
\* characters, and the same lines in the same order.
C4_WrapIdentity ==
    (pc = "done" /\ NoWrapNeeded) =>
        /\ wrapped_text = ascii_text
        /\ lines = InputLines

\* a text of two lines, none over wrap_width, one exactly wrap_width long with
\* whitespace that re-packing its words would have removed
C4_Witness ==
    /\ pc = "done"
    /\ wrap_width > 0
    /\ NoWrapNeeded
    /\ Len(InputLines) >= 2
    /\ \E line \in Range(InputLines) :
           /\ Len(line) = wrap_width
           /\ Split(line) # <<>>
           /\ IsSpace(line[1])

(***************************************************************************)
(* ascii_to_image, lines 316-377.                                           *)
(*                                                                          *)
(* Pillow is taken as it behaves from version 10.1 on: every font,          *)
(* ImageFont.load_default() included, is a FreeType font, whose getbbox     *)
(* measures its argument as ONE line of glyphs and gives the empty string   *)
(* the box (0, 0, 0, 0).  Glyphs are monospaced cells: every glyph of a     *)
(* font has the advance Advance(font), and a line of glyphs is              *)
(* LineHeight(font) high.                                                   *)
(***************************************************************************)
MaxRasterLen == 3     \* longest ascii_text of the ascii_to_image specification
MaxRasterWrap == 2    \* largest wrap_width of the ascii_to_image specification
MaxPadding == 2       \* largest padding of the ascii_to_image specification

DefaultFontSize == 12

RasterChars == {"a", " ", "\n"}

RasterTexts == {s \in StringsUpTo(MaxRasterLen) : \A i \in DOMAIN s : s[i] \in RasterChars}

\* the fonts ImageFont.truetype finds, and the font names a caller may give
InstalledFonts == {"Courier"}
FontNames == {"Courier", "NoSuchFont"}
FontSizes == {0, DefaultFontSize}

\* the color strings ImageColor.getcolor resolves, and those a caller may give
KnownColors == {"white", "black"}
BgColors == {"white", "nocolor"}
FgColors == {"black", "nocolor"}
ColorResolves(color) == color \in KnownColors

SaveOutcomes == {"ok", "refused", "broken"}

\* lines 349-353: ImageFont.truetype raises ValueError for a size <= 0 and
\* OSError for a font it cannot open; only OSError is caught, and replaced by
\* ImageFont.load_default()
LoadFontNoFallback(name, size) ==
    IF size <= 0 \/ name \notin InstalledFonts
    THEN [font |-> "none", raised |-> "ImageFont.truetype"]
    ELSE [font |-> "truetype", raised |-> "none"]
LoadFont(name, size) ==
    IF size <= 0 THEN [font |-> "none", raised |-> "ImageFont.truetype"]
    ELSE IF name \in InstalledFonts THEN [font |-> "truetype", raised |-> "none"]
    ELSE [font |-> "default", raised |-> "none"]

\* glyph metrics of the two fonts
Advance(f) == IF f = "truetype" THEN 2 ELSE 1
LineHeight(f) == IF f = "truetype" THEN 3 ELSE 2

\* the glyphs font.getbbox lays out for text: every character but "\n", and
\* "\n" too when the font gives it a glyph
GlyphCount(text, nl) ==
    Cardinality({i \in DOMAIN text : text[i] # "\n" \/ nl})

\* lines 356-358: bbox = font.getbbox(ascii_text), the text laid out as one line
GetBBox(f, text, nl) ==
    [width  |-> Advance(f) * GlyphCount(text, nl),
     height |-> IF GlyphCount(text, nl) = 0 THEN 0 ELSE LineHeight(f)]

\* line 346: max(len(line) for line in lines) if lines else 0
MaxLineLen(ls) ==
    IF ls = <<>> THEN 0
    ELSE CHOOSE n \in {Len(ls[i]) : i \in DOMAIN ls} :
             \A i \in DOMAIN ls : Len(ls[i]) <= n

\* lines 361-362: a text dimension plus the padding on both sides
ImageSizeNoPadding(text_dim, pad) == text_dim
ImageSize(text_dim, pad) == text_dim + (pad * 2)

\* line 365: Image.new raises ValueError for a negative size or for a color
\* it cannot resolve
NewImageRaises(w, h, bg) == w < 0 \/ h < 0 \/ ~ColorResolves(bg)

\* line 369: draw.text raises ValueError for a fill it cannot resolve
DrawTextRaises(fg) == ~ColorResolves(fg)

\* lines 349-372: the first call of the try block that raises, "none" if the
\* block runs to its return
FirstRaise(loaded, w, h, bg, fg, env) ==
    IF loaded.raised # "none" THEN loaded.raised
    ELSE IF NewImageRaises(w, h, bg) THEN "Image.new"
    ELSE IF DrawTextRaises(fg) THEN "draw.text"
    ELSE IF env # "ok" THEN "image.save"
    ELSE "none"

\* line 372: the file at output_path after the call.  image.save that is
\* refused changes nothing; one that breaks off after opening the file leaves
\* an earlier file truncated, and removes a file it created
FileAfter(before, site, env) ==
    IF site = "none" THEN "image"
    ELSE IF site = "image.save" /\ env = "broken" /\ before # "absent" THEN "partial"
    ELSE before

\* lines 373 and 375-377: True at the end of the try block, False from the
\* handler of every Exception
ReturnedAlwaysTrue(site) == TRUE
Returned(site) == site = "none"

RasterInit ==
    /\ pc = "idle"
    /\ ascii_text = <<>> /\ wrap_width = 0 /\ wrapped_text = <<>> /\ lines = <<>>
    /\ font_name = "" /\ font_size = 0 /\ bg_color = "" /\ fg_color = ""
    /\ padding = 0 /\ newline_glyph = FALSE /\ save_env = "ok"
    /\ font = "none" /\ max_width = 0 /\ text_width = 0 /\ text_height = 0
    /\ img_width = 0 /\ img_height = 0 /\ image = <<>>
    /\ output_file \in {"absent", "stale"}
    /\ raised = "none" /\ result = FALSE
    /\ NoQuantCall
    /\ NoHostUse

\* the parameters of ascii_to_image that are not varied by a call
DefaultSpacing == 1
DefaultAntialias == TRUE

\* lines 324-377: the locals, the file at output_path and the value returned
\* when the body runs on these arguments; nl and env are what the font and
\* image.save do, before is the file at output_path when the call starts
Render(text, w, name, size, bg, fg, pad, nl, env, before) ==
    LET wrapped == WrapText(text, w)
        loaded  == LoadFont(name, size)
        measured == loaded.raised = "none"
        bbox    == GetBBox(loaded.font, wrapped, nl)
        iw      == ImageSize(bbox.width, pad)
        ih      == ImageSize(bbox.height, pad)
        site    == FirstRaise(loaded, iw, ih, bg, fg, env)
    IN  [wrapped_text |-> wrapped,
         lines |-> SplitLines(wrapped),
         max_width |-> MaxLineLen(SplitLines(wrapped)),
         font |-> loaded.font,
         text_width |-> IF measured THEN bbox.width ELSE 0,
         text_height |-> IF measured THEN bbox.height ELSE 0,
         img_width |-> IF measured THEN iw ELSE 0,
         img_height |-> IF measured THEN ih ELSE 0,
         image |-> IF measured /\ ~NewImageRaises(iw, ih, bg)
                   THEN <<iw, ih>> ELSE <<>>,
         raised |-> site,
         output_file |-> FileAfter(before, site, env),
         result |-> Returned(site)]

\* lines 316-377 on the argument record a: spacing and antialias are
\* parameters of the signature (lines 319-320) that the body never names
AsciiToImageOutcomeSpaced(a, nl, env, before) ==
    Render(a.ascii_text, a.wrap_width, a.font_name, a.font_size, a.bg_color,
           a.fg_color, a.padding * a.spacing, nl, env, before)
AsciiToImageOutcome(a, nl, env, before) ==
    Render(a.ascii_text, a.wrap_width, a.font_name, a.font_size, a.bg_color,
           a.fg_color, a.padding, nl, env, before)

\* lines 316-377, one call with spacing and antialias at their defaults
AsciiToImage ==
    /\ pc = "idle"
    /\ pc' = "done"
    /\ \E text \in RasterTexts, w \in 0 .. MaxRasterWrap,
          name \in FontNames, size \in FontSizes,
          bg \in BgColors, fg \in FgColors, pad \in -1 .. MaxPadding,
          nl \in BOOLEAN, env \in SaveOutcomes :
          LET a == [ascii_text |-> text, wrap_width |-> w, font_name |-> name,
                    font_size |-> size, bg_color |-> bg, fg_color |-> fg,
                    padding |-> pad, spacing |-> DefaultSpacing,
                    antialias |-> DefaultAntialias]
              r == AsciiToImageOutcome(a, nl, env, output_file)
          IN  /\ ascii_text' = text
              /\ wrap_width' = w
              /\ font_name' = name
              /\ font_size' = size
              /\ bg_color' = bg
              /\ fg_color' = fg
              /\ padding' = pad
              /\ newline_glyph' = nl
              /\ save_env' = env
              /\ wrapped_text' = r.wrapped_text
              /\ lines' = r.lines
              /\ max_width' = r.max_width
              /\ font' = r.font
              /\ text_width' = r.text_width
              /\ text_height' = r.text_height
              /\ img_width' = r.img_width
              /\ img_height' = r.img_height
              /\ image' = r.image
              /\ raised' = r.raised
              /\ output_file' = r.output_file
              /\ result' = r.result
    /\ UNCHANGED <<quantVars, hostVars>>

RasterNext == AsciiToImage

SpecRaster == RasterInit /\ [][RasterNext]_vars

(***************************************************************************)
(* Properties of ascii_to_image.                                            *)
(***************************************************************************)
\* the error kinds of the specification's taxonomy, by the call that raised
ErrorKind(site) ==
    CASE site \in {"ImageFont.truetype", "Image.new", "draw.text", "image.resize"}
             -> "InvalidConfig"
      [] site = "image.save" -> "EncodeError"
      [] site = "Image.open" -> "DecodeError"
      [] OTHER -> "none"

\* C7: the canvas is (blockWidth + 2*padding) by (blockHeight + 2*padding),
\* blockWidth the advance times the length of the longest wrapped line and
\* blockHeight the line height times the number of wrapped lines.
C7_CanvasIsWrappedBlock ==
    (/\ pc = "done"
     /\ image # <<>>
     /\ padding >= 0
     /\ \A i \in DOMAIN lines : lines[i] # <<>>) =>
        image = <<Advance(font) * max_width + 2 * padding,
                  LineHeight(font) * Len(lines) + 2 * padding>>

\* C8: with padding > 0 every canvas made has a width and a height > 0, and
\* one is made whenever the font size and the background color are valid; an
\* empty ascii_text gives a canvas of 2*padding by 2*padding, and the call
\* succeeds when nothing else fails.
C8_PositiveCanvas ==
    (pc = "done" /\ padding > 0) =>
        /\ image # <<>> => (image[1] > 0 /\ image[2] > 0)
        /\ (font_size > 0 /\ ColorResolves(bg_color)) => image # <<>>
        /\ (ascii_text = <<>> /\ font_size > 0 /\ ColorResolves(bg_color)) =>
               image = <<2 * padding, 2 * padding>>
        /\ (/\ ascii_text = <<>>
            /\ font_size > 0
            /\ ColorResolves(bg_color)
            /\ ColorResolves(fg_color)
            /\ save_env = "ok") => result = TRUE

\* the empty text was converted with a positive padding
C8_Witness ==
    /\ pc = "done"
    /\ ascii_text = <<>>
    /\ padding > 0
    /\ image = <<2 * padding, 2 * padding>>
    /\ output_file = "image"
    /\ result = TRUE

\* C9: when the requested font cannot be opened the built-in default font is
\* used and the call goes on: nothing is raised by the font loading, and the
\* call returns True when the colors resolve, the size is not negative and
\* the save succeeds.
C9_FontFallback ==
    (pc = "done" /\ font_name \notin InstalledFonts /\ font_size > 0) =>
        /\ font = "default"
        /\ raised # "ImageFont.truetype"
        /\ (/\ ColorResolves(bg_color)
            /\ ColorResolves(fg_color)
            /\ padding >= 0
            /\ save_env = "ok") => result = TRUE

\* a call naming a font that is not installed wrote its image
C9_Witness ==
    /\ pc = "done"
    /\ font_name \notin InstalledFonts
    /\ font = "default"
    /\ ascii_text # <<>>
    /\ output_file = "image"
    /\ result = TRUE

\* C10: the call returns True exactly when it wrote the image to output_path;
\* with a background or foreground color that does not resolve it returns
\* False (no exception leaves the call), the failure is of kind InvalidConfig,
\* and the file at output_path is not touched.
C10_TrueIffWritten ==
    pc = "done" =>
        /\ (result = TRUE) <=> (output_file = "image")
        /\ (~ColorResolves(bg_color) \/ ~ColorResolves(fg_color)) =>
               /\ result = FALSE
               /\ ErrorKind(raised) = "InvalidConfig"
               /\ output_file \in {"absent", "stale"}

\* the canvas was made, the foreground color did not resolve, and the file
\* of an earlier call is still there
C10_Witness ==
    /\ pc = "done"
    /\ ColorResolves(bg_color)
    /\ ~ColorResolves(fg_color)
    /\ image # <<>>
    /\ raised = "draw.text"
    /\ output_file = "stale"
    /\ result = FALSE

(***************************************************************************)
(* image_to_ascii, lines 379-415.                                           *)
(*                                                                          *)
(* The file at image_path is described by what Image.open and convert('L')  *)
(* make of it: whether it decodes, its size, and its luminance, one value   *)
(* lum in 0..255 for an image of one uniform color and -1 for any other     *)
(* image.  Resampling an image of one color gives that color at every       *)
(* pixel; resampling any other image may give any luminances.  The Python   *)
(* float expressions of lines 393 and 404 are computed in exact integer     *)
(* arithmetic, with which they agree for every size of this model and for   *)
(* every pixel value 0..255.                                                *)
(***************************************************************************)
MaxImage == 3          \* largest width and height of a source image
MaxWidth == 4          \* largest width argument
MaxVariedPixels == 3   \* most pixels of a resized image that is not uniform

\* line 383
ascii_chars == <<"@", "%", "#", "*", "+", "=", "-", ":", ".", " ">>

\* int(x) for the rational x = n / d, d > 0: truncation towards zero
IntOf(n, d) == IF n >= 0 THEN n \div d ELSE -((-n) \div d)

\* round(x) for the rational x = n / d, n >= 0, d > 0: to the nearest
\* integer, a tie to the even one
RoundOf(n, d) ==
    LET q == n \div d
        r == n % d
    IN  IF 2 * r < d THEN q
        ELSE IF 2 * r > d THEN q + 1
        ELSE IF q % 2 = 0 THEN q ELSE q + 1

\* lines 392-393: int(width * (image.height / image.width) * 0.55)
HeightRounded(w, image_width, image_height) ==
    IF w >= 0 THEN RoundOf(w * image_height * 55, image_width * 100)
    ELSE -RoundOf((-w) * image_height * 55, image_width * 100)
Height(w, image_width, image_height) ==
    IntOf(w * image_height * 55, image_width * 100)

\* line 396: image.resize raises ValueError unless both sizes are >= 1
ResizeAcceptsEmpty(w, h) == w < 0 \/ h < 0
ResizeRaises(w, h) == w < 1 \/ h < 1

\* line 404: int((pixel / 255) * (len(ascii_chars) - 1)), as a 1-based index
CharIndexScaled(pixel) == (pixel * Len(ascii_chars)) \div 256 + 1
CharIndex(pixel) == (pixel * (Len(ascii_chars) - 1)) \div 255 + 1

\* lines 413-415: the value returned by the handler of every Exception
ErrorResultMessage == <<"E", "r", "r", "o", "r">>
ErrorResult == <<>>

\* lines 402-409: the text built from the pixels up to pixel number i
RECURSIVE ToAscii(_, _, _)
ToAscii(data, i, w) ==
    IF i = 0 THEN <<>>
    ELSE ToAscii(data, i - 1, w)
             \o <<ascii_chars[CharIndex(data[i])]>>
             \o (IF i % w = 0 THEN <<"\n">> ELSE <<>>)

SourceSizes == (1 .. MaxImage) \X (1 .. MaxImage)

Widths == -1 .. MaxWidth

\* the call of the specification's scenario: a 10x10 image, width=10
Scenario == [size |-> <<10, 10>>, width |-> 10]

\* the source sizes and width arguments of the calls
Calls ==
    {[size |-> sz, width |-> w] : sz \in SourceSizes, w \in Widths}
        \cup {Scenario}

\* luminances tried at the pixels of an image that is not of one color
SampleLums == {0, 128, 255}

\* line 396: the data a resize to w by h may give
Resized(lum, w, h) ==
    IF lum >= 0 THEN {[i \in 1 .. w * h |-> lum]}
    ELSE [1 .. w * h -> SampleLums]

QuantInit ==
    /\ pc = "idle"
    /\ wrap_width = 0 /\ ascii_text = <<>> /\ wrapped_text = <<>> /\ lines = <<>>
    /\ NoRasterCall
    /\ NoQuantCall
    /\ NoHostUse

\* lines 385-415: the locals and the value returned when the body runs on
\* the file src with the argument w; data is what line 399 reads from the
\* resized image.  Image.open (line 386) raises on a file that does not decode
ImageToAsciiOutcome(src, w, data) ==
    IF ~src.decodable
    THEN [height |-> 0, pixels |-> <<>>, raised |-> "Image.open",
          ascii_result |-> ErrorResult]
    ELSE LET h == Height(w, src.width, src.height)
         IN  IF ResizeRaises(w, h)
             THEN [height |-> h, pixels |-> <<>>, raised |-> "image.resize",
                   ascii_result |-> ErrorResult]
             ELSE [height |-> h, pixels |-> data, raised |-> "none",
                   ascii_result |-> ToAscii(data, w * h, w)]

\* lines 379-415, one call on a file that does not decode
ImageToAsciiUndecodable ==
    /\ pc = "idle"
    /\ pc' = "done"
    /\ \E w \in Widths \cup {Scenario.width} :
          LET src == [decodable |-> FALSE, width |-> 0, height |-> 0, lum |-> 0]
              r   == ImageToAsciiOutcome(src, w, <<>>)
          IN  /\ source' = src
              /\ width' = w
              /\ height' = r.height
              /\ pixels' = r.pixels
              /\ raised' = r.raised
              /\ ascii_result' = r.ascii_result
    /\ UNCHANGED <<wrapVars, rasterArgs, font, max_width, text_width,
                   text_height, img_width, img_height, image, output_file,
                   result, hostVars>>

\* lines 379-415, one call on a file that decodes
ImageToAscii ==
    /\ pc = "idle"
    /\ pc' = "done"
    /\ \E call \in Calls, lum \in -1 .. 255 :
          LET size == call.size
              w    == call.width
              h    == Height(w, size[1], size[2])
              src  == [decodable |-> TRUE, width |-> size[1],
                       height |-> size[2], lum |-> lum]
          IN  /\ lum = -1 => (~ResizeRaises(w, h) /\ w * h <= MaxVariedPixels)
              /\ \E data \in (IF ResizeRaises(w, h) THEN {<<>>}
                              ELSE Resized(lum, w, h)) :
                    LET r == ImageToAsciiOutcome(src, w, data)
                    IN  /\ source' = src
                        /\ width' = w
                        /\ height' = r.height
                        /\ pixels' = r.pixels
                        /\ raised' = r.raised
                        /\ ascii_result' = r.ascii_result
    /\ UNCHANGED <<wrapVars, rasterArgs, font, max_width, text_width,
                   text_height, img_width, img_height, image, output_file,
                   result, hostVars>>

QuantNext == ImageToAscii \/ ImageToAsciiUndecodable

SpecQuant == QuantInit /\ [][QuantNext]_vars

(***************************************************************************)
(* Properties of image_to_ascii.                                            *)
(***************************************************************************)
\* the rows of a document in which every row ends in "\n"
Rows(doc) ==
    LET pieces == SplitLines(doc) IN SubSeq(pieces, 1, Len(pieces) - 1)

EveryRowTerminated(doc) == doc = <<>> \/ doc[Len(doc)] = "\n"

ScenarioSource ==
    [decodable |-> TRUE, width |-> Scenario.size[1],
     height |-> Scenario.size[2], lum |-> 0]

BlackRow == [j \in 1 .. Scenario.width |-> "@"]

\* C1 as stated: a document returned for a decodable image and a width > 0
\* has round(width * (imgH / imgW) * 0.55) lines, each width long; the
\* uniform black 10x10 image with width=10 gives 6 lines of "@@@@@@@@@@".
C1_RoundedLineCount ==
    (pc = "done" /\ source.decodable /\ width > 0 /\ raised = "none") =>
        /\ Len(Rows(ascii_result)) =
               RoundOf(width * source.height * 11, source.width * 20)
        /\ \A i \in DOMAIN Rows(ascii_result) : Len(Rows(ascii_result)[i]) = width
        /\ (source = ScenarioSource /\ width = Scenario.width) =>
               Rows(ascii_result) = [i \in 1 .. 6 |-> BlackRow]

\* C1 amended: for a decodable image and a width > 0 the number of lines is
\* int(width * (imgH / imgW) * 0.55), the product truncated.  When that is at
\* least 1 the document has exactly that many lines, each exactly width long
\* and each ended by a newline; when it is 0 the resize raises and the empty
\* string is returned.  The uniform black 10x10 image with width=10 gives 5
\* lines of "@@@@@@@@@@".
C1_TruncatedLineCount ==
    (pc = "done" /\ source.decodable /\ width > 0) =>
        LET n == (width * source.height * 11) \div (source.width * 20)
            rows == Rows(ascii_result)
        IN  /\ n >= 1 =>
                   /\ raised = "none"
                   /\ EveryRowTerminated(ascii_result)
                   /\ Len(rows) = n
                   /\ \A i \in DOMAIN rows : Len(rows[i]) = width
            /\ n = 0 => (raised = "image.resize" /\ ascii_result = <<>>)
            /\ (source = ScenarioSource /\ width = Scenario.width) =>
                   rows = [i \in 1 .. 5 |-> BlackRow]

\* the uniform black 10x10 image was converted with width=10
C1_Witness ==
    /\ pc = "done"
    /\ source = ScenarioSource
    /\ width = Scenario.width
    /\ raised = "none"
    /\ Len(Rows(ascii_result)) = 5

\* C5: the character written for a pixel of luminance L is the character of
\* the ramp at index floor(L / 255 * 9), the k in 0..9 with
\* k * 255 <= L * 9 < (k + 1) * 255; luminance 0 gives "@" and 255 gives " ".
C5_RampIndex ==
    (pc = "done" /\ source.decodable /\ raised = "none") =>
        /\ Len(ascii_result) = Len(pixels) + height
        /\ \A i \in DOMAIN pixels :
               LET L == pixels[i]
                   c == ascii_result[i + (i - 1) \div width]
               IN  /\ \E k \in 0 .. 9 :
                          /\ k * 255 <= L * 9
                          /\ L * 9 < (k + 1) * 255
                          /\ c = ascii_chars[k + 1]
                   /\ L = 0 => c = "@"
                   /\ L = 255 => c = " "

\* one resized image holds a pixel of luminance 0 and one of luminance 255
C5_Witness ==
    /\ pc = "done"
    /\ raised = "none"
    /\ \E i, j \in DOMAIN pixels : pixels[i] = 0 /\ pixels[j] = 255
    /\ \E p, q \in DOMAIN ascii_result :
           ascii_result[p] = "@" /\ ascii_result[q] = " "

\* C6 as stated: a call with width <= 0 fails with the kind InvalidConfig and
\* returns no document.
C6_InvalidConfigFirst ==
    (pc = "done" /\ width <= 0) =>
        /\ ErrorKind(raised) = "InvalidConfig"
        /\ ascii_result = <<>>

\* C6 amended: a call with width <= 0 always fails and returns the empty
\* string, no character of a document having been produced.  The width is not
\* checked first: for an image that decodes the failure is the ValueError of
\* image.resize (kind InvalidConfig), and for one that does not decode it is
\* the failure of Image.open (kind DecodeError).
C6_NonPositiveWidthFails ==
    (pc = "done" /\ width <= 0) =>
        /\ raised # "none"
        /\ ascii_result = <<>>
        /\ pixels = <<>>
        /\ source.decodable => raised = "image.resize"
        /\ ~source.decodable => raised = "Image.open"

\* a decodable image was given with width=0
C6_Witness ==
    /\ pc = "done"
    /\ source.decodable
    /\ width = 0
    /\ raised = "image.resize"
    /\ ascii_result = <<>>

\* C11: a source that does not decode gives the failure of Image.open (kind
\* DecodeError) and the empty string, no pixel having been read; the value
\* returned is empty exactly when a call of the try block raised, so a
\* conversion that ran to its end returned a non-empty document.
C11_EmptyIffFailed ==
    pc = "done" =>
        /\ ~source.decodable =>
               /\ raised = "Image.open"
               /\ ErrorKind(raised) = "DecodeError"
               /\ pixels = <<>>
               /\ ascii_result = <<>>
        /\ (ascii_result = <<>>) <=> (raised # "none")
        /\ (source.decodable /\ raised = "none") =>
               /\ Len(ascii_result) >= 2
               /\ ascii_result[Len(ascii_result)] = "\n"

\* a source that does not decode was given with a width > 0
C11_Witness ==
    /\ pc = "done"
    /\ ~source.decodable
    /\ width > 0
    /\ raised = "Image.open"
    /\ ascii_result = <<>>

(***************************************************************************)
(* Greedy packing, as a rule on the accumulating line without its trailing  *)
(* space.                                                                   *)
(***************************************************************************)
\* the rule of C14: a word joins a non-empty line current exactly when
\* len(current) + len(word) + 1 <= w; otherwise current is flushed and the
\* word starts the next line
RECURSIVE GreedyPack(_, _, _, _)
GreedyPack(words, k, current, w) ==
    IF k > Len(words) THEN (IF current = <<>> THEN <<>> ELSE <<current>>)
    ELSE IF current = <<>> THEN GreedyPack(words, k + 1, words[k], w)
    ELSE IF Len(current) + Len(words[k]) + 1 <= w
         THEN GreedyPack(words, k + 1, current \o <<" ">> \o words[k], w)
         ELSE <<current>> \o GreedyPack(words, k + 1, words[k], w)

\* C14: with wrap_width > 0 the lines produced for an input line longer than
\* wrap_width are those of the greedy rule (a word joins the non-empty
\* current line exactly when len(current) + len(word) + 1 <= wrap_width,
\* else the line is flushed trimmed and the word starts the next), and the
\* first word of a line would not have fit on the line before it.
C14_GreedyPacking ==
    (pc = "done" /\ wrap_width > 0) =>
        /\ \A line \in Range(InputLines) :
               Len(line) > wrap_width =>
                   LET out == WrapLine(line, wrap_width)
                   IN  /\ out = GreedyPack(Split(line), 1, <<>>, wrap_width)
                       /\ \A i \in 1 .. Len(out) - 1 :
                              Len(out[i]) + Len(Split(out[i + 1])[1]) + 1 > wrap_width
        /\ (/\ Len(InputLines) = 1
            /\ Len(ascii_text) > wrap_width
            /\ Split(ascii_text) # <<>>) =>
               lines = GreedyPack(Split(ascii_text), 1, <<>>, wrap_width)

\* a text of one over-long line whose first produced line holds two words
\* and is exactly wrap_width long, the next word starting a second line
C14_Witness ==
    /\ pc = "done"
    /\ wrap_width > 0
    /\ Len(InputLines) = 1
    /\ Len(ascii_text) > wrap_width
    /\ Len(lines) = 2
    /\ Len(lines[1]) = wrap_width
    /\ Len(Split(lines[1])) = 2
    /\ Len(lines[2]) < wrap_width

\* C16: with wrap_width > 0 at least one line is produced for every input
\* line, the over-long lines of whitespace alone included, so the text has
\* no fewer lines after the wrapping step than before it.
C16_NoLineDisappears ==
    (pc = "done" /\ wrap_width > 0) =>
        /\ \A line \in Range(InputLines) : WrapLine(line, wrap_width) # <<>>
        /\ Len(lines) >= Len(InputLines)

(***************************************************************************)
(* The configuration of an instance: AsciiVision() loads it, the instance   *)
(* changes and saves it, and an instance constructed after a save reads it  *)
(* back (test_config_management).                                           *)
(***************************************************************************)
OptionKeys == {"auto_describe", "screen_reader", "model", "language"}

\* the JSON objects config.json may hold when the program starts
JsonObjects ==
    UNION {{[k \in K |-> JsonDump(f[k])] :
                f \in {g \in [K -> UNION {OptionValues(k) : k \in K}] :
                          \A k \in K : g[k] \in OptionValues(k)}} :
           K \in SUBSET OptionKeys}

ConfigFiles ==
    {File(kind, EmptyDict) : kind \in FileKinds \ {"object"}}
        \cup {File("object", d) : d \in JsonObjects}

ConfigInit ==
    /\ pc = "idle"
    /\ ascii_text = <<>> /\ wrap_width = 0 /\ wrapped_text = <<>> /\ lines = <<>>
    /\ NoRasterCall
    /\ NoQuantCall
    /\ config = EmptyDict /\ client = "None"
    /\ config_file \in ConfigFiles
    /\ phase = "start" /\ raised_new = "none" /\ reloaded = EmptyDict
    /\ calls = 0 /\ first_call = NoCall /\ last_call = NoCall
    /\ argv = <<>> /\ exit_status = -1 /\ stdout = {} /\ described = FALSE

\* lines 38-42: AsciiVision()
NewInstance ==
    /\ phase = "start"
    /\ LET r == LoadConfig(config_file)
       IN  /\ raised_new' = r.raised
           /\ IF r.raised = "none"
              THEN config' = r.config /\ phase' = "constructed"
              ELSE config' = config /\ phase' = "crashed"
    /\ client' = "None"
    /\ UNCHANGED <<pc, wrapVars, rasterArgs, rasterVars, quantVars,
                   config_file, reloaded, callVars, mainVars>>

\* main lines 481 and 483, test line 128: config[k] = v
SetOption ==
    /\ phase \in {"constructed", "changed", "saved"}
    /\ \E k \in OptionKeys : \E v \in OptionValues(k) :
          config' = Merge(config, [j \in {k} |-> v])
    /\ phase' = "changed"
    /\ UNCHANGED <<pc, wrapVars, rasterArgs, rasterVars, quantVars, client,
                   config_file, raised_new, reloaded, callVars, mainVars>>

\* lines 76-82: _save_config()
SaveConfigStep ==
    /\ phase \in {"constructed", "changed", "saved"}
    /\ \E env \in ConfigSaveOutcomes :
          /\ config_file' = SaveConfig(config, config_file, env)
          /\ phase' = IF env = "ok" THEN "saved" ELSE "changed"
    /\ UNCHANGED <<pc, wrapVars, rasterArgs, rasterVars, quantVars, config,
                   client, raised_new, reloaded, callVars, mainVars>>

\* test line 132: AsciiVision() once more, after a save that succeeded
Reload ==
    /\ phase = "saved"
    /\ LET r == LoadConfig(config_file)
       IN  /\ raised_new' = r.raised
           /\ reloaded' = r.config
    /\ phase' = "reloaded"
    /\ UNCHANGED <<pc, wrapVars, rasterArgs, rasterVars, quantVars, config,
                   client, config_file, callVars, mainVars>>

ConfigNext == NewInstance \/ SetOption \/ SaveConfigStep \/ Reload

SpecConfig == ConfigInit /\ [][ConfigNext]_vars

\* the instance constructed after a save holds every saved key with its
\* saved value, and the default for a key the file lacks
SavedConfigReloads ==
    phase = "reloaded" =>
        /\ raised_new = "none"
        /\ DOMAIN config \subseteq DOMAIN reloaded
        /\ \A k \in DOMAIN config : reloaded[k] = config[k]
        /\ \A k \in DOMAIN reloaded \ DOMAIN config :
              reloaded[k] = default_config[k]

BadFileKinds == {"unreadable", "invalid_json", "not_object", "not_text"}

\* AsciiVision() on a file that cannot be read as a configuration returns
\* an instance on the default configuration
BadFileYieldsDefault ==
    /\ phase # "crashed"
    /\ (phase = "constructed" /\ config_file.kind \in BadFileKinds) =>
           (raised_new = "none" /\ config = default_config)

\* C13: an instance constructed after _save_config succeeded loads every
\* saved key with its saved value, defaults filling only the keys the file
\* lacks; an unreadable or malformed config file yields the default
\* configuration and no error.
C13_ConfigRoundTrip == SavedConfigReloads /\ BadFileYieldsDefault

(***************************************************************************)
(* Conversions called one after another on one instance, whose config and   *)
(* client change between the calls.                                         *)
(***************************************************************************)
MaxCalls == 3      \* most conversions called on the instance

\* the instance as a method receives it
Self == [config |-> config, client |-> client]

\* ascii_to_image(self, ...), lines 316-377: the instance after the call and
\* what the call gave: the value returned, the image in the file it wrote
\* and the call that raised
AsciiToImageCallDescribing(self, a, nl, env, before) ==
    LET r == AsciiToImageOutcome(a, nl, env, before)
    IN  [self |-> IF r.result /\ self.config["auto_describe"] = PyTrue
                  THEN [self EXCEPT !.client = "OpenAI"] ELSE self,
         file |-> r.output_file,
         out  |-> [result |-> r.result,
                   image |-> IF r.result THEN r.image ELSE <<>>,
                   raised |-> r.raised]]
AsciiToImageCall(self, a, nl, env, before) ==
    LET r == AsciiToImageOutcome(a, nl, env, before)
    IN  [self |-> self,
         file |-> r.output_file,
         out  |-> [result |-> r.result,
                   image |-> IF r.result THEN r.image ELSE <<>>,
                   raised |-> r.raised]]

\* image_to_ascii(self, ...), lines 379-415: the instance after the call and
\* what the call gave: the text returned and the call that raised
ImageToAsciiCall(self, src, w, data) ==
    LET r == ImageToAsciiOutcome(src, w, data)
    IN  [self |-> self,
         out  |-> [ascii_result |-> r.ascii_result, raised |-> r.raised]]

\* the arguments of the calls of ascii_to_image
TextArgs ==
    [ascii_text : {<<"a", "\n", "a">>}, wrap_width : {0},
     font_name : {"Courier"}, font_size : {DefaultFontSize},
     bg_color : BgColors, fg_color : {"black"}, padding : {1},
     spacing : {DefaultSpacing, DefaultSpacing + 1}, antialias : BOOLEAN]

\* the files and the arguments of the calls of image_to_ascii
ImageArgs ==
    [source : {[decodable |-> FALSE, width |-> 0, height |-> 0, lum |-> 0],
               [decodable |-> TRUE, width |-> 1, height |-> 2, lum |-> 0]},
     width : {0, 2}]

CallsInit ==
    /\ pc = "idle"
    /\ ascii_text = <<>> /\ wrap_width = 0 /\ wrapped_text = <<>> /\ lines = <<>>
    /\ NoRasterCall
    /\ NoQuantCall
    /\ NoHostUse

\* main line 483: app.config["auto_describe"] = True
EnableAutoDescribe ==
    /\ config' = Merge(config, [k \in {"auto_describe"} |-> PyTrue])
    /\ phase' = "changed"
    /\ UNCHANGED <<pc, wrapVars, rasterArgs, rasterVars, quantVars, client,
                   config_file, raised_new, reloaded, callVars, mainVars>>

\* lines 162-176, at line 175: self.client = OpenAI(api_key=api_key)
SetupOpenAIClient ==
    /\ client' = "OpenAI"
    /\ UNCHANGED <<pc, wrapVars, rasterArgs, rasterVars, quantVars, config,
                   config_file, phase, raised_new, reloaded, callVars,
                   mainVars>>

\* a call of ascii_to_image on the instance
CallAsciiToImage ==
    /\ calls < MaxCalls
    /\ \E a \in TextArgs, env \in {"ok", "refused"} :
          LET r == AsciiToImageCall(Self, a, FALSE, env, output_file)
              c == [method |-> "ascii_to_image", args |-> a, env |-> env,
                    self |-> Self, self_after |-> r.self, out |-> r.out]
          IN  /\ config' = r.self.config
              /\ client' = r.self.client
              /\ output_file' = r.file
              /\ last_call' = c
              /\ first_call' = IF calls = 0 THEN c ELSE first_call
    /\ calls' = calls + 1
    /\ UNCHANGED <<pc, wrapVars, rasterArgs, font, max_width, text_width,
                   text_height, img_width, img_height, image, raised, result,
                   quantVars, config_file, phase, raised_new, reloaded,
                   mainVars>>

\* a call of image_to_ascii on the instance
CallImageToAscii ==
    /\ calls < MaxCalls
    /\ \E a \in ImageArgs :
          \E data \in (IF ~a.source.decodable \/ a.width <= 0 THEN {<<>>}
                       ELSE Resized(a.source.lum, a.width,
                                    Height(a.width, a.source.width,
                                           a.source.height))) :
             LET r == ImageToAsciiCall(Self, a.source, a.width, data)
                 c == [method |-> "image_to_ascii", args |-> a, env |-> "ok",
                       self |-> Self, self_after |-> r.self, out |-> r.out]
             IN  /\ config' = r.self.config
                 /\ client' = r.self.client
                 /\ last_call' = c
                 /\ first_call' = IF calls = 0 THEN c ELSE first_call
    /\ calls' = calls + 1
    /\ UNCHANGED <<pc, wrapVars, rasterArgs, rasterVars, quantVars,
                   config_file, phase, raised_new, reloaded, mainVars>>

CallsNext ==
    \/ EnableAutoDescribe
    \/ SetupOpenAIClient
    \/ CallAsciiToImage
    \/ CallImageToAscii

SpecCalls == CallsInit /\ [][CallsNext]_vars

\* the first and the latest call are calls of one method on the same
\* arguments, files and environment
SameCall ==
    /\ calls >= 2
    /\ first_call.method = last_call.method
    /\ first_call.args = last_call.args
    /\ first_call.env = last_call.env

\* C12: the two conversions are deterministic and stateless: whatever was
\* called before and whatever config and client hold, two calls on identical
\* arguments and file contents give identical output, and a call leaves
\* config and client as it found them.
C12_Stateless ==
    /\ calls >= 1 =>
           /\ first_call.self_after = first_call.self
           /\ last_call.self_after = last_call.self
    /\ SameCall => first_call.out = last_call.out

\* the same successful rendering called before and after both config and
\* client changed, another call in between
C12_Witness ==
    /\ SameCall
    /\ calls = 3
    /\ first_call.method = "ascii_to_image"
    /\ first_call.out.result
    /\ first_call.self.client # last_call.self.client
    /\ first_call.self.config # last_call.self.config
    /\ last_call.self_after = Self

\* the arguments a and b of ascii_to_image differ at most in spacing and
\* antialias
SameButSpacing(a, b) ==
    [a EXCEPT !.spacing = b.spacing, !.antialias = b.antialias] = b

ArgvSet ==
    [to_ascii : BOOLEAN, output : BOOLEAN, auto_describe : BOOLEAN,
     describe_only : BOOLEAN,
     text_args : {a \in TextArgs : a.spacing = DefaultSpacing /\ ~a.antialias},
     width : {0, 2}]

\* the command line with what the run meets: the screen reader detected and
\* the answer to the question of line 482, the input file, what saving the
\* image and writing the text file do, and whether a description is obtained
MainInputs ==
    [argv : ArgvSet,
     screen_reader : {PyNone, PyStr("Orca")},
     answer : BOOLEAN,
     input_file : {"found", "missing"},
     source : {[decodable |-> FALSE, width |-> 0, height |-> 0, lum |-> 0],
               [decodable |-> TRUE, width |-> 1, height |-> 2, lum |-> 0]},
     save_env : {"ok", "broken"},
     write_env : {"ok", "refused"},
     api : {"no_key", "ok"}]

\* config.json when main starts
MainConfigFiles ==
    {File("absent", EmptyDict),
     File("not_object", EmptyDict),
     File("object", [k \in {"auto_describe"} |-> JsonDump(PyTrue)])}

\* the run when main is entered
Started(file, out) ==
    [config |-> EmptyDict, client |-> "None", config_file |-> file,
     output_file |-> out, stdout |-> {}, described |-> FALSE,
     call |-> NoCall, exit_status |-> -1]

\* sys.exit(status), or main returning (status 0), or an exception that
\* nothing catches (status 1)
Exit(st, status) == [st EXCEPT !.exit_status = status]

\* lines 269-314: _describe_image, with _setup_openai_client (lines 162-176)
DescribeImage(st, in) ==
    [st EXCEPT !.described = TRUE,
               !.client = IF @ = "None" /\ in.api # "no_key" THEN "OpenAI" ELSE @,
               !.stdout = IF in.api = "ok" THEN @ \cup {"description"}
                          ELSE @ \cup {"error"}]

\* lines 508-511 and 531-535
AutoDescribe(st, in) ==
    IF st.config["auto_describe"] = PyTrue \/ in.argv.auto_describe
    THEN DescribeImage(st, in) ELSE st

\* lines 479-484
AskAboutScreenReader(st, in) ==
    IF in.screen_reader # PyNone /\ st.config["screen_reader"] = PyNone
    THEN LET c1 == Merge(st.config, [k \in {"screen_reader"} |-> in.screen_reader])
             c2 == Merge(c1, [k \in {"auto_describe"} |-> PyTrue])
         IN  IF in.answer
             THEN [st EXCEPT !.config = c2,
                             !.config_file = SaveConfig(c2, @, "ok")]
             ELSE [st EXCEPT !.config = c1]
    ELSE st

\* line 399 on an image of one color
UniformData(src, w) ==
    IF ~src.decodable \/ w <= 0 THEN <<>>
    ELSE [i \in 1 .. w * Height(w, src.width, src.height) |-> src.lum]

\* lines 500-515: the image -> ASCII branch.  A failed conversion takes the
\* empty else of line 502 and main returns
ToAsciiBranch(st, in) ==
    LET self == [config |-> st.config, client |-> st.client]
        w    == in.argv.width
        r    == ImageToAsciiCall(self, in.source, w, UniformData(in.source, w))
        c    == [method |-> "image_to_ascii",
                 args |-> [source |-> in.source, width |-> w], env |-> "ok",
                 self |-> self, self_after |-> r.self, out |-> r.out]
        st1  == [st EXCEPT !.call = c,
                           !.stdout = IF r.out.raised # "none"
                                      THEN @ \cup {"conversion error"} ELSE @]
    IN  IF r.out.ascii_result # <<>>
        THEN IF in.argv.output
             THEN IF in.write_env = "ok"
                  THEN Exit(AutoDescribe(
                                [st1 EXCEPT !.output_file = "text",
                                            !.stdout = @ \cup {"ASCII art saved"}],
                                in), 0)
                  ELSE Exit(st1, 1)
             ELSE Exit(AutoDescribe(
                           [st1 EXCEPT !.stdout = @ \cup {"ascii art"}], in), 0)
        ELSE Exit(st1, 0)

\* lines 516-539: the ASCII -> image branch
ToImageBranch(st, in) ==
    IF ~in.argv.output
    THEN Exit([st EXCEPT !.stdout = @ \cup {"error"}], 1)
    ELSE LET self == [config |-> st.config, client |-> st.client]
             r    == AsciiToImageCall(self, in.argv.text_args, FALSE,
                                      in.save_env, st.output_file)
             c    == [method |-> "ascii_to_image", args |-> in.argv.text_args,
                      env |-> in.save_env, self |-> self,
                      self_after |-> r.self, out |-> r.out]
             st1  == [st EXCEPT !.call = c, !.output_file = r.file,
                                !.stdout = IF r.out.raised # "none"
                                           THEN @ \cup {"conversion error"}
                                           ELSE @]
         IN  IF r.out.result
             THEN Exit(AutoDescribe(
                           [st1 EXCEPT !.stdout = @ \cup {"Image saved"}], in), 0)
             ELSE Exit(st1, 1)

\* lines 462-539
MainOutcome(in, file, out) ==
    LET st0    == Started(file, out)
        loaded == LoadConfig(file)
    IN  IF loaded.raised # "none" THEN Exit(st0, 1)
        ELSE LET st1 == [st0 EXCEPT !.config = loaded.config]
             IN  IF in.argv.describe_only THEN Exit(DescribeImage(st1, in), 0)
                 ELSE LET st2 == AskAboutScreenReader(st1, in)
                      IN  IF in.argv.to_ascii THEN ToAsciiBranch(st2, in)
                          ELSE IF in.input_file # "found"
                          THEN Exit([st2 EXCEPT !.stdout = @ \cup {"error"}], 1)
                          ELSE ToImageBranch(st2, in)

MainInit ==
    /\ pc = "idle"
    /\ ascii_text = <<>> /\ wrap_width = 0 /\ wrapped_text = <<>> /\ lines = <<>>
    /\ NoRasterCall
    /\ NoQuantCall
    /\ config = EmptyDict /\ client = "None"
    /\ config_file \in MainConfigFiles
    /\ phase = "start" /\ raised_new = "none" /\ reloaded = EmptyDict
    /\ calls = 0 /\ first_call = NoCall /\ last_call = NoCall
    /\ argv = <<>> /\ exit_status = -1 /\ stdout = {} /\ described = FALSE

\* lines 418-539, one run
Main ==
    /\ pc = "idle"
    /\ pc' = "done"
    /\ \E in \in MainInputs :
          \E st \in {MainOutcome(in, config_file, output_file)} :
              /\ argv' = in.argv
              /\ config' = st.config
              /\ client' = st.client
              /\ config_file' = st.config_file
              /\ output_file' = st.output_file
              /\ stdout' = st.stdout
              /\ described' = st.described
              /\ exit_status' = st.exit_status
              /\ last_call' = st.call
              /\ first_call' = st.call
              /\ calls' = IF st.call.method = "none" THEN 0 ELSE 1
              /\ raised_new' = LoadConfig(config_file).raised
    /\ UNCHANGED <<wrapVars, rasterArgs, font, max_width, text_width,
                   text_height, img_width, img_height, image, raised, result,
                   quantVars, phase, reloaded>>

MainNext == Main

SpecMain == MainInit /\ [][MainNext]_vars

\* main called a conversion and it failed
ConversionFailed ==
    /\ pc = "done"
    /\ calls = 1
    /\ \/ last_call.method = "ascii_to_image" /\ ~last_call.out.result
       \/ last_call.method = "image_to_ascii"
              /\ last_call.out.ascii_result = ErrorResult

SuccessMessages == {"ASCII art saved", "Image saved", "ascii art"}

\* C17: when the conversion main asked for fails, in either direction, the
\* process ends with a non-zero exit status, prints no success message,
\* main writes no output file and no image description is requested.
C17_FailureExitsNonZero ==
    ConversionFailed =>
        /\ exit_status # 0
        /\ stdout \cap SuccessMessages = {}
        /\ output_file # "text"
        /\ ~described

\* the same without the exit status
FailureIsQuiet ==
    ConversionFailed =>
        /\ stdout \cap SuccessMessages = {}
        /\ output_file # "text"
        /\ ~described

\* a failed rendering ends the process with a non-zero status
FailedRenderingExitsNonZero ==
    (ConversionFailed /\ last_call.method = "ascii_to_image") => exit_status = 1

====
